---- MODULE Spec2Model ----
(***************************************************************************)
(* The sandbox server (apps/sandbox/sandbox/main.py) and the SandboxClient *)
(* (packages/kubebox/kubebox/_client.py) as one state machine.             *)
(*                                                                         *)
(* The server is a single asyncio event loop: a handler runs atomically    *)
(* from one await that really suspends to the next.  HTTP handlers are     *)
(* called by any HTTP client; push-channel messages travel in one FIFO per *)
(* connection and direction.  Connection "c1" carries a SandboxClient,     *)
(* connection "c2" is a peer that sends protocol messages directly.        *)
(***************************************************************************)
EXTENDS Integers, Sequences, FiniteSets, TLC

\* ------------------------------------------------------------------ bounds
MaxOps == 3
MaxSessionObjs == 2
MaxProcs == 2
MaxPid == 2
MaxLines == 1
MaxTasks == 2
MaxInflight == 2

\* ------------------------------------------------------------- value sets
SessionIds == {"s1", "s2"}
Conns == {"c1", "c2"}
ClientConn == "c1"
PeerConn == "c2"
PathInputs == {<< >>}
Streams == {"stdout", "stderr"}
PIDs == 1..MaxPid

\* a line of bytes as a child writes it: its number on its stream, and whether
\* the bytes are valid UTF-8
Line(n, utf8) == [n |-> n, utf8 |-> utf8]
Lines(n) == [i \in 1..n |-> Line(i, TRUE)]

\* the shell commands clients send, by what they write before they end:
\* "lines" writes MaxLines lines to stdout, "binary" writes bytes that are not
\* UTF-8 to stdout and a line to stderr
Commands == {"lines", "binary"}
\* "endless" writes a line to both streams and, while it runs, another line
\* whenever one of its pipes is empty
Endless == "endless"
Output(command) ==
    CASE command = "lines" -> [stdout |-> Lines(MaxLines), stderr |-> << >>]
      [] command = "binary" -> [stdout |-> <<Line(1, FALSE)>>, stderr |-> Lines(1)]
      [] command = Endless -> [stdout |-> Lines(1), stderr |-> Lines(1)]
\* and the exit code they end with when nothing kills them
ExitCode(command) == IF command = "binary" THEN 1 ELSE 0

\* Python None for str-valued fields, and Optional[int] as <<>> / <<v>>
None == "None"
Null == << >>
Some(v) == <<v>>

\* ExecutionMode (main.py) / CommandMode (_client.py)
WAIT == "wait"
BACKGROUND == "background"
STREAM == "stream"
ExecutionMode == {WAIT, BACKGROUND, STREAM}

\* a path is the sequence of its components, an absolute one starts with "/";
\* the paths of the requests have no "." and no ".." component
\* no path in a request (None, or "" in initialize)
NoPath == << >>
\* default of `init_data.path or "/default/path"`
DefaultPath == <<"/", "default", "path">>
\* returncode of a child ended by SIGTERM
SigTermCode == -15

VARIABLES
    sessions,        \* SessionManager.sessions: session id -> Session object (0: no key)
    order,           \* insertion order of the keys of SessionManager.sessions
    heap,            \* the Session objects ever constructed
    procs,           \* the Process objects ever constructed, with their child
    tasks,           \* the stream_output tasks created by start_command_stream
    kills,           \* kill_command handlers suspended in `await process.wait()`
    c2s,             \* push channel, client -> server, of the SandboxClient's connection
    s2c,             \* push channel, server -> client, of the SandboxClient's connection
    peer_event,      \* the event the peer's connection received last
    response,        \* the last HTTP response the server returned
    gone,            \* <<session id, pid>> whose command_exit was emitted or whose kill returned
    ops,             \* number of operations started by clients so far
    stream_queues,   \* SandboxClient.stream_queues: pid -> queue (0: no key)
    queues,          \* the asyncio.Queue objects the client created: what was put on
                     \* each, in order
    streams,         \* the StreamProcess objects returned to the caller
    attaching,       \* SandboxClient.run_command calls between the response and the attach
    initialized_event, \* SandboxClient.initialized_event
    client_sessions, \* keys of SandboxClient.sessions
    result,          \* what the last SandboxClient.run_command call in wait or
                     \* background mode returned or raised
    status_handler,  \* the handler registered for "status" on SandboxClient.sio: 0 is
                     \* self.on_status, n the on_status closure of the n-th check_status
    status_seen,     \* number of status events the client's connection delivered
    status_calls,    \* the SandboxClient.check_status calls, in the order they started
    init_calls,      \* the SandboxClient.initialize_session calls that sent their
                     \* handshake, in the order they sent it
    pod,             \* a KubeboxPod.wait_until_ready call: where it stands, what
                     \* its reads of the pod returned, what it returned
    fs               \* the server's file system: absolute path -> directory entry

serverVars == <<sessions, order, heap, procs, tasks, kills, response, gone, fs>>
chanVars == <<c2s, s2c, peer_event>>
statusVars == <<status_handler, status_seen, status_calls>>
clientVars == <<stream_queues, queues, streams, attaching, initialized_event, client_sessions,
                result, status_handler, status_seen, status_calls, init_calls, pod>>
vars == <<sessions, order, heap, procs, tasks, kills, c2s, s2c, peer_event, response, gone, ops,
          stream_queues, queues, streams, attaching, initialized_event, client_sessions,
          result, status_handler, status_seen, status_calls, init_calls, pod, fs>>

ProcIds == 1..Len(procs)
TaskIds == 1..Len(tasks)
StreamIds == 1..Len(streams)

\* ---------------------------------------------------------------- helpers
RECURSIVE SelectFirst(_, _)
\* first session id of `seq` (dict order) whose Session has sid = c, or None
SelectFirst(seq, c) ==
    IF seq = << >> THEN None
    ELSE IF heap[sessions[Head(seq)]].sid = c THEN Head(seq)
    ELSE SelectFirst(Tail(seq), c)

InSeq(x, seq) == \E i \in 1..Len(seq) : seq[i] = x

\* ------------------------------------------------------- Session / Process
\* Session.__init__
Session(session_id, path) ==
    [session_id |-> session_id, path |-> path, sid |-> None,
     active_processes |-> [p \in PIDs |-> 0]]

\* Process.__init__ together with the child it wraps
Process(pid, command, workdir) ==
    [pid |-> pid, command |-> command, cwd |-> workdir, alive |-> TRUE, signalled |-> FALSE,
     returncode |-> Null, exit_code |-> Null,
     buf |-> Output(command),
     wrote |-> Output(command),
     exits |-> 0, late |-> FALSE]

\* SessionManager.get_session
get_session(session_id) == sessions[session_id]

\* a lookup by process id alone, in the registry of every Session
get_process_any_session(o, process_id) ==
    IF process_id \notin PIDs THEN 0
    ELSE IF \E o2 \in 1..Len(heap) : heap[o2].active_processes[process_id] # 0
    THEN heap[CHOOSE o2 \in 1..Len(heap) : heap[o2].active_processes[process_id] # 0]
             .active_processes[process_id]
    ELSE 0

\* Session.get_process on Session object o
get_process(o, process_id) ==
    IF process_id \in PIDs THEN heap[o].active_processes[process_id] ELSE 0

\* Session.add_process on Session object o, as a new heap
add_process(o, p, pid) ==
    [heap EXCEPT ![o].active_processes[pid] = p]

\* Session.remove_process on Session object o, as a new heap
remove_process(o, pid) ==
    [heap EXCEPT ![o].active_processes[pid] = 0]

\* SessionManager.remove_process: looks the session up again by id
manager_remove_process(session_id, pid) ==
    IF get_session(session_id) = 0 THEN heap
    ELSE remove_process(get_session(session_id), pid)

\* SessionManager.get_session_by_sid
get_session_by_sid(sid) == SelectFirst(order, sid)

\* Process.returncode
returncode(p) == procs[p].returncode

\* pids the operating system may hand out: not held by a child still running
\* (which never-used pid it takes is immaterial: the smallest)
UsedPids == {procs[p].pid : p \in ProcIds}
FreePids ==
    {pid \in PIDs : /\ \A p \in ProcIds : procs[p].alive => procs[p].pid # pid
                    /\ pid \in UsedPids \/ pid = Cardinality(UsedPids) + 1}

\* sio.emit(event, data, room=room): room None reaches every connected client
Recipients(room) == IF room = None THEN Conns ELSE {room} \cap Conns

emit(ev, room) ==
    /\ s2c' = IF ClientConn \in Recipients(room) THEN Append(s2c, ev) ELSE s2c
    /\ peer_event' = IF PeerConn \in Recipients(room) THEN ev ELSE peer_event

\* line.decode(): the text of a line, defined for valid UTF-8 only
decode(line) == [text |-> line.n]

\* ------------------------------------------------------------ file system
\* the directory the server process runs in: what cwd=None and a relative
\* path mean to the operating system
ServerCwd == <<"/", "app">>

\* the `path` of the initialize requests of the file-system specification
RootInputs == {NoPath, <<"test_path">>}
\* the `path` of the run_command requests: absent, or a directory name
RunPaths == {NoPath, <<"test_path">>}
\* the `file_path` of the file requests
FilePaths == {<<"f">>, <<"d", "f">>}

\* the characters of a file's content
CR == "\r"
LF == "\n"
Chars == {"a", CR, LF}
MaxContent == 2
MaxPolls == 3
Contents == UNION {[1..n -> Chars] : n \in 0..MaxContent}

\* os.path.isabs
isabs(p) == p # << >> /\ p[1] = "/"
\* os.path.join(a, p): an absolute p discards a
join(a, p) == IF isabs(p) THEN p ELSE a \o p
\* the file the operating system reaches by path p from the server's directory
abspath(p) == join(ServerCwd, p)
\* os.path.dirname
dirname(p) == SubSeq(p, 1, Len(p) - 1)
\* the directories on the way to p, p included
Prefixes(p) == {SubSeq(p, 1, k) : k \in 1..Len(p)}
\* q is p or lies beneath p
Under(p, q) == p \in Prefixes(q)

\* the paths the requests can reach
Nodes ==
    Prefixes(ServerCwd)
    \cup UNION {Prefixes(abspath(q)) : q \in RunPaths \ {NoPath}}
    \cup UNION {Prefixes(abspath(join(r, f))) :
                    r \in {DefaultPath} \cup (RootInputs \ {NoPath}), f \in FilePaths}

\* directory entries
NoEntry == [kind |-> "none"]
Dir == [kind |-> "dir"]
File(data) == [kind |-> "file", data |-> data]

\* os.path.isfile / os.path.isdir
isfile(p) == fs[p].kind = "file"
isdir(p) == fs[p].kind = "dir"

\* os.makedirs(d, exist_ok=True) raises when d or a directory on the way to it
\* is a file
makedirs_raises(d) == \E q \in Prefixes(d) : isfile(q)
\* and otherwise makes every missing directory on the way to d, d included
makedirs(d) == [n \in Nodes |-> IF n \in Prefixes(d) /\ fs[n] = NoEntry THEN Dir ELSE fs[n]]

\* os.linesep
linesep == <<LF>>

RECURSIVE write_text(_)
\* what f.write(content) stores through open(full_path, "w"): text mode
\* writes os.linesep for every "\n"
write_text(content) ==
    IF content = << >> THEN << >>
    ELSE (IF Head(content) = LF THEN linesep ELSE <<Head(content)>>) \o write_text(Tail(content))

RECURSIVE read_text(_)
\* what file.read() returns through open(full_path, "r"): text mode with
\* universal newlines turns "\r\n" and "\r" into "\n"
read_text(data) ==
    IF data = << >> THEN << >>
    ELSE IF Head(data) = CR
    THEN <<LF>> \o read_text(IF Len(data) >= 2 /\ data[2] = LF THEN Tail(Tail(data))
                             ELSE Tail(data))
    ELSE <<Head(data)>> \o read_text(Tail(data))

\* ------------------------------------------------------------------- Init
Init ==
    /\ sessions = [s \in SessionIds |-> 0]
    /\ order = << >>
    /\ heap = << >>
    /\ procs = << >>
    /\ tasks = << >>
    /\ kills = << >>
    /\ c2s = << >>
    /\ s2c = << >>
    /\ peer_event = [event |-> "none"]
    /\ response = [kind |-> "none"]
    /\ gone = {}
    /\ ops = 0
    /\ stream_queues = [p \in PIDs |-> 0]
    /\ queues = << >>
    /\ streams = << >>
    /\ attaching = << >>
    /\ initialized_event = FALSE
    /\ client_sessions = {}
    /\ result = [kind |-> "none"]
    /\ status_handler = 0
    /\ status_seen = 0
    /\ status_calls = << >>
    /\ init_calls = << >>
    /\ pod = [stage |-> "created", reads |-> << >>, returned |-> [kind |-> "none"]]
    /\ fs = [n \in Nodes |-> IF n \in Prefixes(ServerCwd) THEN Dir ELSE NoEntry]

\* ---------------------------------------------------------- HTTP handlers
\* SessionManager.create_session
create_session(session_id, path) ==
    /\ Len(heap) < MaxSessionObjs
    /\ heap' = Append(heap, Session(session_id, path))
    /\ sessions' = [sessions EXCEPT ![session_id] = Len(heap) + 1]
    /\ order' = IF InSeq(session_id, order) THEN order ELSE Append(order, session_id)

\* POST /initialize
initialize(session_id, path) ==
    /\ create_session(session_id, IF path = NoPath THEN DefaultPath ELSE path)
    /\ response' = [kind |-> "InitResponse", http |-> 200, session_id |-> session_id]
    /\ UNCHANGED <<procs, kills, gone>>

\* POST /run_command, an unknown session
run_command_no_session(session_id) ==
    /\ get_session(session_id) = 0
    /\ response' = [kind |-> "error", http |-> 400, detail |-> "Session not found"]
    /\ UNCHANGED <<sessions, order, heap, procs, kills, gone>>

\* the working directory of a command spawned with cwd=path: the server's own
\* for None, and a relative path is taken from the server's own
cwd(path) == IF path = NoPath THEN ServerCwd ELSE abspath(path)

\* run_command in stream or background mode that makes and registers the
\* Process before it spawns the command
run_command_spawn_registered(session_id, command, mode, pid, spawned, path) ==
    /\ get_session(session_id) # 0
    /\ mode \in {STREAM, BACKGROUND}
    /\ Len(procs) < MaxProcs
    /\ pid \in FreePids
    /\ spawned => isdir(cwd(path))
    /\ procs' = Append(procs, [Process(pid, command, cwd(path)) EXCEPT !.alive = spawned])
    /\ heap' = add_process(get_session(session_id), Len(procs) + 1, pid)
    /\ response' = IF spawned THEN [kind |-> "process", http |-> 200, process_id |-> pid]
                   ELSE [kind |-> "error", http |-> 500, detail |-> "Internal Server Error"]
    /\ UNCHANGED <<sessions, order, kills, gone>>

\* POST /run_command in stream or background mode; spawned = FALSE when
\* create_subprocess_shell raises, as it does when cwd is no directory
run_command_spawn(session_id, command, mode, pid, spawned, path) ==
    /\ get_session(session_id) # 0
    /\ mode \in {STREAM, BACKGROUND}
    /\ IF spawned
       THEN /\ Len(procs) < MaxProcs
            /\ pid \in FreePids
            /\ isdir(cwd(path))
            /\ procs' = Append(procs, Process(pid, command, cwd(path)))
            /\ heap' = add_process(get_session(session_id), Len(procs) + 1, pid)
            /\ response' = [kind |-> "process", http |-> 200, process_id |-> pid]
       ELSE /\ response' = [kind |-> "error", http |-> 500, detail |-> "Internal Server Error"]
            /\ UNCHANGED <<procs, heap>>
    /\ UNCHANGED <<sessions, order, kills, gone>>

\* the captured bytes of a stream as text (text=True): every line decodes
Decodable(lines) == \A k \in 1..Len(lines) : lines[k].utf8
Text(lines) == [k \in 1..Len(lines) |-> decode(lines[k]).text]

\* the event loop is inside the blocking subprocess.run of a wait-mode
\* run_command: no handler and no task of the server runs
Blocked == response.kind = "waiting"

\* the timeout of a request: a number, null, or no timeout key at all
DefaultTimeout == 10
Missing == <<0, 0>>
Timeouts == {Missing, Null, Some(1)}

\* data.get("timeout", 10): the default stands in for a missing key only
get_timeout(timeout) == IF timeout = Missing THEN Some(DefaultTimeout) ELSE timeout

\* POST /run_command in wait mode up to the call of subprocess.run, which
\* raises FileNotFoundError when cwd is no directory
run_command_wait_start(session_id, command, path, timeout) ==
    /\ get_session(session_id) # 0
    /\ response' = IF isdir(cwd(path))
                   THEN [kind |-> "waiting", session_id |-> session_id, command |-> command,
                         cwd |-> cwd(path), timeout |-> get_timeout(timeout)]
                   ELSE [kind |-> "error", http |-> 500, detail |-> "Internal Server Error"]
    /\ UNCHANGED <<sessions, order, heap, procs, kills, gone>>

\* run_command in wait mode without the except clause: TimeoutExpired leaves
\* the handler
run_command_wait_uncaught(session_id, command, completed) ==
    /\ get_session(session_id) # 0
    /\ response' = IF completed /\ Decodable(Output(command).stdout)
                                /\ Decodable(Output(command).stderr)
                   THEN [kind |-> "result", http |-> 200,
                         stdout |-> Text(Output(command).stdout),
                         stderr |-> Text(Output(command).stderr),
                         exit_code |-> ExitCode(command),
                         finished |-> (ExitCode(command) = 0)]
                   ELSE [kind |-> "error", http |-> 500, detail |-> "Internal Server Error"]
    /\ UNCHANGED <<sessions, order, heap, procs, kills, gone>>

\* POST /run_command in wait mode from the return of subprocess.run: it
\* completed, raised TimeoutExpired, or raised UnicodeDecodeError on the
\* captured output
run_command_wait(session_id, command, completed) ==
    /\ get_session(session_id) # 0
    /\ response' = IF ~completed
                   THEN [kind |-> "timeout", http |-> 200, error |-> "Command timed out",
                         finished |-> FALSE]
                   ELSE IF Decodable(Output(command).stdout) /\ Decodable(Output(command).stderr)
                   THEN [kind |-> "result", http |-> 200,
                         stdout |-> Text(Output(command).stdout),
                         stderr |-> Text(Output(command).stderr),
                         exit_code |-> ExitCode(command),
                         finished |-> (ExitCode(command) = 0)]
                   ELSE [kind |-> "error", http |-> 500, detail |-> "Internal Server Error"]
    /\ UNCHANGED <<sessions, order, heap, procs, kills, gone>>

\* an error response of POST /kill_command (of: the request it answers)
KillError(http, detail, session_id, process_id) ==
    [kind |-> "error", http |-> http, detail |-> detail,
     of |-> [session_id |-> session_id, process_id |-> process_id]]

\* kill_command that, finding no such process, signals every process of the
\* session before it answers
kill_command_session(session_id, process_id, raises) ==
    LET o == get_session(session_id)
    IN  /\ UNCHANGED <<sessions, order, heap, gone, kills>>
        /\ IF o = 0
           THEN /\ response' = KillError(400, "Session not found", session_id, process_id)
                /\ UNCHANGED procs
           ELSE /\ response' = KillError(404, "No such process", session_id, process_id)
                /\ procs' = [p \in ProcIds |->
                                IF heap[o].active_processes[procs[p].pid] = p
                                THEN [procs[p] EXCEPT !.signalled = procs[p].alive]
                                ELSE procs[p]]

\* POST /kill_command up to `await process.wait()`.  raises = TRUE when
\* terminate() finds the transport of an exited child already closed.
kill_command(session_id, process_id, raises) ==
    LET o == get_session(session_id)
        p == get_process(o, process_id)
    IN  /\ UNCHANGED <<sessions, order, heap, gone>>
        /\ IF o = 0
           THEN /\ response' = KillError(400, "Session not found", session_id, process_id)
                /\ UNCHANGED <<procs, kills>>
           ELSE IF p = 0
           THEN /\ response' = KillError(404, "No such process", session_id, process_id)
                /\ UNCHANGED <<procs, kills>>
           ELSE IF ~procs[p].alive /\ raises
           THEN /\ response' = KillError(500, "Internal Server Error", session_id, process_id)
                /\ UNCHANGED <<procs, kills>>
           ELSE /\ Len(kills) < MaxInflight
                /\ procs' = [procs EXCEPT ![p].signalled = procs[p].alive]
                /\ kills' = Append(kills, [session |-> o, session_id |-> session_id, process |-> p])
                /\ UNCHANGED response

\* kill_command whose session.remove_process raises KeyError when the stream's
\* cleanup has removed the process already
kill_command_return_conflict(k) ==
    LET kc == kills[k]
        p == kc.process
        registered == heap[kc.session].active_processes[procs[p].pid] # 0
    IN  /\ ~procs[p].alive
        /\ procs' = [procs EXCEPT ![p].exit_code = procs[p].returncode]
        /\ heap' = remove_process(kc.session, procs[p].pid)
        /\ kills' = SubSeq(kills, 1, k - 1) \o SubSeq(kills, k + 1, Len(kills))
        /\ response' = IF registered
                       THEN [kind |-> "killed", http |-> 200, status |-> "killed",
                             exit_code |-> returncode(p),
                             session_id |-> kc.session_id, process_id |-> procs[p].pid]
                       ELSE KillError(500, "Internal Server Error", kc.session_id, procs[p].pid)
        /\ gone' = gone \cup {<<kc.session_id, procs[p].pid>>}
        /\ UNCHANGED <<sessions, order>>

\* POST /kill_command after `await process.wait()` has returned for kills[k]
kill_command_return(k) ==
    LET kc == kills[k]
        p == kc.process
    IN  /\ ~procs[p].alive
        /\ procs' = [procs EXCEPT ![p].exit_code = procs[p].returncode]
        /\ heap' = remove_process(kc.session, procs[p].pid)
        /\ kills' = SubSeq(kills, 1, k - 1) \o SubSeq(kills, k + 1, Len(kills))
        /\ response' = [kind |-> "killed", http |-> 200, status |-> "killed",
                        exit_code |-> returncode(p),
                        session_id |-> kc.session_id, process_id |-> procs[p].pid]
        /\ gone' = gone \cup {<<kc.session_id, procs[p].pid>>}
        /\ UNCHANGED <<sessions, order>>

\* ------------------------------------------------------------ the children
\* A child has written its output (Output) to its pipes when run_command returns.
\* a child exits by itself, or on the SIGTERM of terminate()
ProcExit(p) ==
    /\ procs[p].alive
    /\ procs' = [procs EXCEPT ![p].alive = FALSE,
                              ![p].returncode =
                                  IF procs[p].signalled THEN Some(SigTermCode)
                                  ELSE Some(ExitCode(procs[p].command))]
    /\ UNCHANGED <<sessions, order, heap, tasks, kills, response, gone, ops, fs>>
    /\ UNCHANGED chanVars
    /\ UNCHANGED clientVars

\* the child of an endless command writes its next line to a pipe it finds
\* empty (`wrote` keeps the lines of its first round); it writes no faster
\* than the push channel takes MaxInflight events off
ChildWrite(p, d) ==
    /\ procs[p].alive
    /\ procs[p].command = Endless
    /\ procs[p].buf[d] = << >>
    /\ Len(s2c) < MaxInflight
    /\ procs' = [procs EXCEPT ![p].buf[d] = Lines(1)]
    /\ UNCHANGED <<sessions, order, heap, tasks, kills, response, gone, ops, fs>>
    /\ UNCHANGED chanVars
    /\ UNCHANGED clientVars

\* ------------------------------------------------------ push-channel handlers
Msg(event, session_id, process_id) ==
    [event |-> event, session_id |-> session_id, process_id |-> process_id]

\* SessionManager.set_session_sid, as a new heap
set_session_sid(session_id, sid) ==
    IF session_id \notin SessionIds \/ get_session(session_id) = 0 THEN heap
    ELSE [heap EXCEPT ![get_session(session_id)].sid = sid]

\* @sio.on("initialize")
sio_initialize(sid, data) ==
    /\ IF data.session_id = ""
       THEN UNCHANGED <<heap, s2c, peer_event>>
       ELSE /\ heap' = set_session_sid(data.session_id, sid)
            /\ emit([event |-> "initialized", status |-> "success",
                     session_id |-> data.session_id], sid)
    /\ UNCHANGED <<sessions, order, procs, tasks, kills, response, gone, fs>>

\* the value of `process and process.returncode is None`, as sent in JSON
running_of(p) ==
    IF p = 0 THEN Null ELSE Some(returncode(p) = Null)

\* @sio.on("check_status")
check_status(sid, data) ==
    LET session == get_session_by_sid(sid)
    IN  /\ IF session # None
           THEN emit([event |-> "status",
                      running |-> running_of(get_process(get_session(session),
                                                         data.process_id)),
                      session_id |-> session], sid)
           ELSE emit([event |-> "status", running |-> Some(FALSE),
                      session_id |-> None], sid)
        /\ UNCHANGED serverVars

\* stream_output task as created by asyncio.create_task
StreamTask(o, session_id, process_id, p) ==
    [session |-> o, session_id |-> session_id, process_id |-> process_id, process |-> p,
     raised |-> [d \in Streams |-> FALSE], stage |-> "gather"]

\* start_command_stream that attaches to the first registered process of the
\* session, whatever process the message names
start_command_stream_first(sid, data) ==
    LET o == IF data.session_id \in SessionIds THEN get_session(data.session_id) ELSE 0
        regs == IF o = 0 THEN {} ELSE {q \in PIDs : heap[o].active_processes[q] # 0}
        p == IF regs = {} THEN 0
             ELSE heap[o].active_processes[CHOOSE q \in regs : \A r \in regs : q <= r]
    IN  /\ IF o = 0 \/ p = 0
           THEN UNCHANGED tasks
           ELSE /\ Len(tasks) < MaxTasks
                /\ tasks' = Append(tasks, StreamTask(o, data.session_id, data.process_id, p))
        /\ UNCHANGED <<sessions, order, heap, procs, kills, response, gone, s2c, peer_event, fs>>

\* @sio.on("start_command_stream")
start_command_stream(sid, data) ==
    LET o == IF data.session_id \in SessionIds THEN get_session(data.session_id) ELSE 0
        p == IF o = 0 THEN 0 ELSE get_process(o, data.process_id)
    IN  /\ IF o = 0 \/ p = 0
           THEN UNCHANGED tasks
           ELSE /\ Len(tasks) < MaxTasks
                /\ tasks' = Append(tasks, StreamTask(o, data.session_id, data.process_id, p))
        /\ UNCHANGED <<sessions, order, heap, procs, kills, response, gone, s2c, peer_event, fs>>

\* a stream_output task has called sio.emit for its command_exit and the event
\* is not yet on the connection: events emitted later are sent after it, so
\* the steps that emit wait for it
SendPending == \E t \in TaskIds : tasks[t].stage = "emit"

\* the server handles a message of connection sid
Handle(sid, data) ==
    /\ ~Blocked
    /\ ~SendPending
    /\ CASE data.event = "initialize" -> sio_initialize(sid, data)
      [] data.event = "check_status" -> check_status(sid, data)
      [] data.event = "start_command_stream" -> start_command_stream(sid, data)

\* ------------------------------------------------------------ stream_output
\* read_stream of task t on stream d has left its loop: it raised, or its
\* readline() returns b"" (the stream is empty and the child has closed it)
loop_raised(t, d) == tasks[t].raised[d]
loop_ended(t, d) ==
    \/ loop_raised(t, d)
    \/ procs[tasks[t].process].buf[d] = << >> /\ ~procs[tasks[t].process].alive

\* a coroutine of an earlier task is suspended in readline() on stream d of
\* process p (the stream is empty and open, and that loop has not ended)
OtherWaiter(t, p, d) ==
    \E u \in TaskIds : u < t /\ tasks[u].process = p /\ ~loop_raised(u, d)

\* read_stream run for stdout and then for stderr instead of through
\* asyncio.gather: stderr is read once the loop on stdout has ended
read_stream_line_sequential(t, d) ==
    LET tk == tasks[t]
        p == tk.process
        line == Head(procs[p].buf[d])
    IN  /\ ~Blocked
        /\ ~loop_raised(t, d)
        /\ d = "stderr" => loop_ended(t, "stdout")
        /\ procs[p].buf[d] # << >>
        /\ ~SendPending
        /\ IF line.utf8
           THEN /\ emit([event |-> "command_output", output |-> decode(line).text,
                         type |-> d, session_id |-> tk.session_id,
                         process_id |-> tk.process_id],
                        heap[tk.session].sid)
                /\ UNCHANGED <<tasks, fs>>
                /\ procs' = [procs EXCEPT ![p].buf[d] = Tail(@),
                                          ![p].late = @ \/ procs[p].exits > 0]
           ELSE /\ tasks' = [tasks EXCEPT ![t].raised[d] = TRUE]
                /\ procs' = [procs EXCEPT ![p].buf[d] = Tail(@)]
                /\ UNCHANGED <<s2c, peer_event>>
        /\ UNCHANGED <<sessions, order, heap, kills, response, gone, ops, c2s, fs>>
        /\ UNCHANGED clientVars

\* read_stream: readline() returned a line; decode and emit it
read_stream_line(t, d) ==
    LET tk == tasks[t]
        p == tk.process
        line == Head(procs[p].buf[d])
    IN  /\ ~Blocked
        /\ ~loop_raised(t, d)
        /\ procs[p].buf[d] # << >>
        /\ ~SendPending
        /\ IF line.utf8
           THEN /\ emit([event |-> "command_output", output |-> decode(line).text,
                         type |-> d, session_id |-> tk.session_id,
                         process_id |-> tk.process_id],
                        heap[tk.session].sid)
                /\ UNCHANGED <<tasks, fs>>
                /\ procs' = [procs EXCEPT ![p].buf[d] = Tail(@),
                                          ![p].late = @ \/ procs[p].exits > 0]
           ELSE /\ tasks' = [tasks EXCEPT ![t].raised[d] = TRUE]
                /\ procs' = [procs EXCEPT ![p].buf[d] = Tail(@)]
                /\ UNCHANGED <<s2c, peer_event>>
        /\ UNCHANGED <<sessions, order, heap, kills, response, gone, ops, c2s, fs>>
        /\ UNCHANGED clientVars

\* read_stream: readline() has no line yet and the pipe is open: it raises
\* RuntimeError when another coroutine already waits on the stream (and
\* otherwise suspends, which changes nothing)
read_stream_block(t, d) ==
    LET tk == tasks[t]
        p == tk.process
    IN  /\ ~Blocked
        /\ ~loop_raised(t, d)
        /\ procs[p].buf[d] = << >>
        /\ procs[p].alive
        /\ OtherWaiter(t, p, d)
        /\ tasks' = [tasks EXCEPT ![t].raised[d] = TRUE]
        /\ UNCHANGED <<sessions, order, heap, procs, kills, response, gone, ops, fs>>
        /\ UNCHANGED chanVars
        /\ UNCHANGED clientVars

\* stream_output with the cleanup at the end of the try block instead of in
\* finally: it is reached only when gather returned without an exception
gather_over_returned(t) ==
    /\ \A d \in Streams : loop_ended(t, d)
    /\ \A d \in Streams : ~loop_raised(t, d)

\* asyncio.gather(...) has returned or raised: both loops ended, or one raised
gather_over(t) ==
    \/ \A d \in Streams : loop_ended(t, d)
    \/ \E d \in Streams : loop_raised(t, d)

\* the finally block of stream_output, once process.wait() has returned, up to
\* the call of sio.emit: the exit code is recorded and the process removed
stream_output_finally(t) ==
    LET tk == tasks[t]
        p == tk.process
    IN  /\ ~Blocked
        /\ tk.stage = "gather"
        /\ gather_over(t)
        /\ ~procs[p].alive
        /\ ~SendPending
        /\ procs' = [procs EXCEPT ![p].exit_code = procs[p].returncode]
        /\ heap' = manager_remove_process(tk.session_id, procs[p].pid)
        /\ tasks' = [tasks EXCEPT ![t].stage = "emit"]
        /\ UNCHANGED <<sessions, order, kills, response, gone, ops, fs>>
        /\ UNCHANGED chanVars
        /\ UNCHANGED clientVars

\* `await sio.emit("command_exit", ...)` at the end of the finally block
stream_output_exit(t) ==
    LET tk == tasks[t]
        p == tk.process
    IN  /\ ~Blocked
        /\ tk.stage = "emit"
        /\ procs' = [procs EXCEPT ![p].exits = @ + 1]
        /\ emit([event |-> "command_exit", exit_code |-> procs[p].exit_code,
                 session_id |-> tk.session_id, process_id |-> tk.process_id],
                heap[tk.session].sid)
        /\ tasks' = [tasks EXCEPT ![t].stage = "done"]
        /\ gone' = gone \cup {<<tk.session_id, tk.process_id>>}
        /\ UNCHANGED <<sessions, order, heap, kills, response, ops, c2s, fs>>
        /\ UNCHANGED clientVars

\* ------------------------------------------------------------ file handlers
\* os.path.join(session.path, file_path) of an existing session, as the
\* operating system resolves it
full_path(session_id, file_path) ==
    abspath(join(heap[get_session(session_id)].path, file_path))

FileError(http, detail) == [kind |-> "error", http |-> http, detail |-> detail]
Success == [kind |-> "status", http |-> 200, status |-> "success"]

\* POST /write_file; open(full_path, "w") raises unless the parent is a
\* directory and full_path is none
write_file(session_id, file_path, content, make_parent) ==
    /\ IF get_session(session_id) = 0
       THEN /\ response' = FileError(400, "Session not found")
            /\ UNCHANGED fs
       ELSE LET full == full_path(session_id, file_path)
                parent == dirname(full)
                raises == make_parent /\ makedirs_raises(parent)
                made == IF make_parent /\ ~raises THEN makedirs(parent) ELSE fs
                opens == ~raises /\ made[parent] = Dir /\ made[full] # Dir
            IN  /\ fs' = IF opens THEN [made EXCEPT ![full] = File(write_text(content))]
                         ELSE made
                /\ response' = IF opens THEN Success
                               ELSE FileError(500, "Internal Server Error")
    /\ UNCHANGED <<sessions, order, heap, procs, kills, gone>>

\* what GET /read_file answers in the current state
read_file_response(session_id, file_path) ==
    IF get_session(session_id) = 0 THEN FileError(400, "Session not found")
    ELSE IF ~isfile(full_path(session_id, file_path)) THEN FileError(404, "File not found")
    ELSE [kind |-> "content", http |-> 200,
          content |-> read_text(fs[full_path(session_id, file_path)].data)]

\* GET /read_file
read_file(session_id, file_path) ==
    /\ response' = read_file_response(session_id, file_path)
    /\ UNCHANGED <<sessions, order, heap, procs, kills, gone, fs>>

\* POST /delete_file; os.remove raises unless full_path is a file
delete_file(session_id, file_path) ==
    /\ IF get_session(session_id) = 0
       THEN /\ response' = FileError(400, "Session not found")
            /\ UNCHANGED fs
       ELSE IF isfile(full_path(session_id, file_path))
       THEN /\ fs' = [fs EXCEPT ![full_path(session_id, file_path)] = NoEntry]
            /\ response' = Success
       ELSE /\ response' = FileError(500, "Internal Server Error")
            /\ UNCHANGED fs
    /\ UNCHANGED <<sessions, order, heap, procs, kills, gone>>

\* POST /make_dirs
make_dirs(session_id, file_path) ==
    /\ IF get_session(session_id) = 0
       THEN /\ response' = FileError(400, "Session not found")
            /\ UNCHANGED fs
       ELSE IF makedirs_raises(full_path(session_id, file_path))
       THEN /\ response' = FileError(500, "Internal Server Error")
            /\ UNCHANGED fs
       ELSE /\ fs' = makedirs(full_path(session_id, file_path))
            /\ response' = Success
    /\ UNCHANGED <<sessions, order, heap, procs, kills, gone>>

\* ------------------------------------------------------ any HTTP client
Budget == ops < MaxOps /\ ops' = ops + 1

\* session ids a client may pick for a new session (which unused id it takes
\* is immaterial: "s1" first)
Pickable(s) == s = "s1" \/ sessions["s1"] # 0

HttpInitialize ==
    \E s \in SessionIds, path \in PathInputs :
        /\ Budget
        /\ ~Blocked
        /\ Pickable(s)
        /\ initialize(s, path)
        /\ UNCHANGED <<tasks, fs>>
        /\ UNCHANGED chanVars
        /\ UNCHANGED clientVars

\* POST /run_command: the three modes and the unknown session
run_command(session_id, command, mode, pid, spawned, path, timeout) ==
    \/ run_command_no_session(session_id)
    \/ run_command_spawn(session_id, command, mode, pid, spawned, path)
    \/ /\ mode = WAIT
       /\ run_command_wait_start(session_id, command, path, timeout)

\* the requests of these callers carry no path and no timeout
HttpRunCommand ==
    \E s \in SessionIds, cmd \in Commands, mode \in ExecutionMode, pid \in PIDs, ok \in BOOLEAN :
        /\ Budget
        /\ ~Blocked
        /\ run_command(s, cmd, mode, pid, ok, NoPath, Missing)
        /\ UNCHANGED <<tasks, fs>>
        /\ UNCHANGED chanVars
        /\ UNCHANGED clientVars

\* SandboxClient.run_command suspended in the POST of a wait-mode command
AwaitingRun == [kind |-> "awaiting run"]

\* CommandResult(**result): finished is required, stdout, stderr and exit_code
\* default to None, other keys are ignored; an error body has no finished
CommandResult(r) ==
    IF "finished" \notin DOMAIN r THEN [kind |-> "exception"]
    ELSE [kind |-> "CommandResult",
          stdout |-> IF "stdout" \in DOMAIN r THEN Some(r.stdout) ELSE Null,
          stderr |-> IF "stderr" \in DOMAIN r THEN Some(r.stderr) ELSE Null,
          exit_code |-> IF "exit_code" \in DOMAIN r THEN Some(r.exit_code) ELSE Null,
          finished |-> r.finished]

\* subprocess.run of the wait-mode run_command returns or raises, and the
\* handler answers: it returns when the command has ended, and raises
\* TimeoutExpired only when it was given a timeout
run_command_return(completed) ==
    /\ Blocked
    /\ IF completed THEN response.command # Endless ELSE response.timeout # Null
    /\ run_command_wait(response.session_id, response.command, completed)
    /\ result' = IF result = AwaitingRun THEN CommandResult(response') ELSE result
    /\ UNCHANGED <<tasks, ops, fs>>
    /\ UNCHANGED chanVars
    /\ UNCHANGED <<stream_queues, queues, streams, attaching, initialized_event,
                   client_sessions>>
    /\ UNCHANGED <<statusVars, init_calls, pod>>

RunCommandReturn == \E completed \in BOOLEAN : run_command_return(completed)

HttpKillCommand ==
    \E s \in SessionIds, pid \in PIDs, raises \in BOOLEAN :
        /\ Budget
        /\ ~Blocked
        /\ kill_command(s, pid, raises)
        /\ UNCHANGED <<tasks, fs>>
        /\ UNCHANGED chanVars
        /\ UNCHANGED clientVars

\* CommandKilled(**result) without the default for a missing status
CommandKilled_strict(r) ==
    IF r.http = 500 \/ "status" \notin DOMAIN r THEN [kind |-> "exception"]
    ELSE [kind |-> "CommandKilled", status |-> r.status,
          exit_code |-> IF "exit_code" \in DOMAIN r THEN r.exit_code ELSE Null]

\* what SandboxClient.kill_command makes of the response: the body of a 500
\* is not JSON and response.json() raises; a body without status gets status
\* "not found"; CommandKilled(**result) ignores the other keys
CommandKilled(r) ==
    IF r.http = 500 THEN [kind |-> "exception"]
    ELSE [kind |-> "CommandKilled",
          status |-> IF "status" \in DOMAIN r THEN r.status ELSE "not found",
          exit_code |-> IF "exit_code" \in DOMAIN r THEN r.exit_code ELSE Null]

\* SandboxClient.kill_command suspended in the POST for Process object p
AwaitingKill(session_id, p) ==
    [kind |-> "awaiting kill", session_id |-> session_id, process |-> p]

KillCommandReturn ==
    \E k \in 1..Len(kills) :
        /\ ~Blocked
        /\ kill_command_return(k)
        /\ UNCHANGED <<tasks, ops, fs>>
        /\ UNCHANGED chanVars
        /\ result' = IF result = AwaitingKill(kills[k].session_id, kills[k].process)
                     THEN CommandKilled(response')
                     ELSE result
        /\ UNCHANGED <<stream_queues, queues, streams, attaching, initialized_event,
                       client_sessions>>
        /\ UNCHANGED <<statusVars, init_calls, pod>>

\* ------------------------------------------------- the peer on connection c2
\* a message of the peer, taken at the moment the server handles it (a
\* handshake creates nothing and is not counted in ops)
PeerMessage(event) ==
    \E s \in SessionIds \cup {""}, pid \in PIDs :
        /\ IF event = "initialize" THEN UNCHANGED ops ELSE Budget
        /\ s = "" => event = "initialize"
        /\ Handle(PeerConn, Msg(event, s, IF event = "initialize" THEN 0 ELSE pid))
        /\ UNCHANGED c2s
        /\ UNCHANGED clientVars

PeerInitialize == PeerMessage("initialize")
PeerCheckStatus == PeerMessage("check_status")
PeerStartCommandStream == PeerMessage("start_command_stream")

\* the push channel of the SandboxClient's connection, client -> server
Send(m) == Len(c2s) < MaxInflight /\ c2s' = Append(c2s, m)

ServerReceive(event) ==
    /\ c2s # << >>
    /\ Head(c2s).event = event
    /\ c2s' = Tail(c2s)
    /\ Handle(ClientConn, Head(c2s))
    /\ UNCHANGED ops
    /\ UNCHANGED clientVars

\* ---------------------------------------------------------- SandboxClient
\* CommandOutput put on a stream queue, and the None that ends a stream
\* (`source` remembers the process_id of the command_exit that caused it)
Record(data) ==
    [sentinel |-> FALSE, output |-> data.output, type |-> data.type,
     process_id |-> data.process_id]

Sentinel(process_id) == [sentinel |-> TRUE, source |-> process_id]

\* StreamProcess.__init__
StreamProcess(process_id, stream_queue, p) ==
    [process_id |-> process_id, stream_queue |-> stream_queue, process |-> p]

\* an initialize_session call after its handshake was sent: suspended in
\* `await self.initialized_event.wait()`, or returned
InitCall(stage) == [stage |-> stage]

\* SandboxClient.initialize_session up to `await self.initialized_event.wait()`:
\* wait() on an event that is already set returns at once, and so does the call
initialize_session(session_id, path) ==
    /\ Budget
    /\ ~Blocked
    /\ Pickable(session_id)
    /\ initialize(session_id, path)
    /\ client_sessions' = client_sessions \cup {session_id}
    /\ Send(Msg("initialize", session_id, 0))
    /\ init_calls' = Append(init_calls,
                            InitCall(IF initialized_event THEN "returned" ELSE "waiting"))
    /\ UNCHANGED <<tasks, s2c, peer_event, fs>>
    /\ UNCHANGED <<stream_queues, queues, streams, attaching, initialized_event, result>>
    /\ UNCHANGED <<statusVars, pod>>

ClientInitializeSession ==
    \E s \in SessionIds, path \in PathInputs : initialize_session(s, path)

\* BackgroundProcess(process_id=result["process_id"])
BackgroundProcess(r) ==
    IF "process_id" \notin DOMAIN r THEN [kind |-> "exception"]
    ELSE [kind |-> "BackgroundProcess", process_id |-> r.process_id]

\* SandboxClient.run_command up to the value it returns in wait and background
\* mode, and up to `process_id = result["process_id"]` in stream mode
client_run_command(session_id, command, mode, pid, spawned, path, timeout) ==
    /\ Budget
    /\ ~Blocked
    /\ run_command(session_id, command, mode, pid, spawned, path, timeout)
    /\ attaching' = IF mode = STREAM /\ response'.kind = "process"
                    THEN Append(attaching, [session_id |-> session_id,
                                            process_id |-> response'.process_id,
                                            process |-> Len(procs')])
                    ELSE attaching
    /\ result' = CASE mode = WAIT -> IF response'.kind = "waiting" THEN AwaitingRun
                                     ELSE CommandResult(response')
                   [] mode = BACKGROUND -> BackgroundProcess(response')
                   [] mode = STREAM -> IF response'.kind = "process" THEN result
                                       ELSE [kind |-> "exception"]
    /\ UNCHANGED <<tasks, fs>>
    /\ UNCHANGED chanVars
    /\ UNCHANGED <<stream_queues, queues, streams, initialized_event, client_sessions>>
    /\ UNCHANGED <<statusVars, init_calls, pod>>

\* these callers pass no path and timeout=10
ClientRunCommand ==
    \E s \in SessionIds, cmd \in Commands, mode \in ExecutionMode, pid \in PIDs, ok \in BOOLEAN :
        client_run_command(s, cmd, mode, pid, ok, NoPath, Some(DefaultTimeout))

\* SandboxClient.run_command, stream mode, that sends the attach message
\* without having entered the queue in stream_queues
client_attach_unregistered(i) ==
    LET a == attaching[i]
    IN  /\ queues' = Append(queues, << >>)
        /\ stream_queues' = stream_queues
        /\ Send(Msg("start_command_stream", a.session_id, a.process_id))
        /\ streams' = Append(streams, StreamProcess(a.process_id, Len(queues) + 1, a.process))
        /\ attaching' = SubSeq(attaching, 1, i - 1) \o SubSeq(attaching, i + 1, Len(attaching))
        /\ UNCHANGED serverVars
        /\ UNCHANGED <<s2c, peer_event, ops>>
        /\ UNCHANGED <<initialized_event, client_sessions, result>>
        /\ UNCHANGED <<statusVars, init_calls, pod>>

\* SandboxClient.run_command, stream mode, after the response: the queue is
\* created, the attach message is sent, the StreamProcess is returned
client_attach(i) ==
    LET a == attaching[i]
    IN  /\ queues' = Append(queues, << >>)
        /\ stream_queues' = [stream_queues EXCEPT ![a.process_id] = Len(queues) + 1]
        /\ Send(Msg("start_command_stream", a.session_id, a.process_id))
        /\ streams' = Append(streams, StreamProcess(a.process_id, Len(queues) + 1, a.process))
        /\ attaching' = SubSeq(attaching, 1, i - 1) \o SubSeq(attaching, i + 1, Len(attaching))
        /\ UNCHANGED serverVars
        /\ UNCHANGED <<s2c, peer_event, ops>>
        /\ UNCHANGED <<initialized_event, client_sessions, result>>
        /\ UNCHANGED <<statusVars, init_calls, pod>>

ClientAttach == \E i \in 1..Len(attaching) : client_attach(i)

\* Status(**status_data): `running` is the only field of Status; the empty
\* status_data a call starts with has no running and the constructor raises
Status(status_data) ==
    IF "running" \notin DOMAIN status_data THEN [kind |-> "exception"]
    ELSE [kind |-> "Status", running |-> status_data.running]

\* a check_status call suspended in `await status_event.wait()`.  `answers` is
\* the position, among the status events of the connection, of the event that
\* status_data was taken from (0: none yet)
StatusCall ==
    [stage |-> "waiting", status_data |-> [event |-> "none"], answers |-> 0,
     returned |-> [kind |-> "none"]]

\* SandboxClient.check_status up to `await status_event.wait()`: the call's
\* closure replaces the registered status handler, then the request is sent
client_check_status(session_id, process_id) ==
    /\ Budget
    /\ status_calls' = Append(status_calls, StatusCall)
    /\ status_handler' = Len(status_calls) + 1
    /\ Send(Msg("check_status", session_id, process_id))
    /\ UNCHANGED serverVars
    /\ UNCHANGED <<s2c, peer_event, status_seen>>
    /\ UNCHANGED <<stream_queues, queues, streams, attaching, initialized_event,
                   client_sessions, result, init_calls, pod>>

\* SandboxClient.check_status after `await status_event.wait()`: self.on_status
\* is registered again and Status(**status_data) is returned
client_check_status_return(n) ==
    /\ status_calls[n].stage = "set"
    /\ status_calls' = [status_calls EXCEPT ![n].stage = "returned",
                                            ![n].returned = Status(status_calls[n].status_data)]
    /\ status_handler' = 0
    /\ UNCHANGED serverVars
    /\ UNCHANGED chanVars
    /\ UNCHANGED <<ops, status_seen>>
    /\ UNCHANGED <<stream_queues, queues, streams, attaching, initialized_event,
                   client_sessions, result, init_calls, pod>>

ClientCheckStatusReturn == \E n \in 1..Len(status_calls) : client_check_status_return(n)

ClientCheckStatus ==
    \E s \in SessionIds, pid \in PIDs : client_check_status(s, pid)

\* SandboxClient.kill_command: the POST, and what the call returns when the
\* server answers at once
client_kill_command(session_id, process_id, raises) ==
    /\ Budget
    /\ ~Blocked
    /\ kill_command(session_id, process_id, raises)
    /\ result' = IF kills' = kills THEN CommandKilled(response')
                 ELSE AwaitingKill(session_id, kills'[Len(kills')].process)
    /\ UNCHANGED <<tasks, fs>>
    /\ UNCHANGED chanVars
    /\ UNCHANGED <<stream_queues, queues, streams, attaching, initialized_event,
                   client_sessions>>
    /\ UNCHANGED <<statusVars, init_calls, pod>>

ClientKillCommand ==
    \E s \in SessionIds, pid \in PIDs, raises \in BOOLEAN : client_kill_command(s, pid, raises)

\* on_command_output with the single shared delivery queue of the earlier
\* client: every output goes to the queue created last
on_command_output_shared(data) ==
    /\ queues' = IF queues = << >> THEN queues
                 ELSE [queues EXCEPT ![Len(queues)] = Append(@, Record(data))]
    /\ UNCHANGED <<stream_queues, streams, attaching, initialized_event, client_sessions, result>>
    /\ UNCHANGED <<statusVars, init_calls, pod>>

\* SandboxClient.on_command_output: KeyError when the pid has no queue
on_command_output(data) ==
    /\ queues' = IF stream_queues[data.process_id] = 0 THEN queues
                 ELSE [queues EXCEPT ![stream_queues[data.process_id]] = Append(@, Record(data))]
    /\ UNCHANGED <<stream_queues, streams, attaching, initialized_event, client_sessions, result>>
    /\ UNCHANGED <<statusVars, init_calls, pod>>

\* SandboxClient.on_command_exit: KeyError when the pid has no queue
on_command_exit(data) ==
    /\ queues' = IF stream_queues[data.process_id] = 0 THEN queues
                 ELSE [queues EXCEPT ![stream_queues[data.process_id]] =
                                         Append(@, Sentinel(data.process_id))]
    /\ UNCHANGED <<stream_queues, streams, attaching, initialized_event, client_sessions, result>>
    /\ UNCHANGED <<statusVars, init_calls, pod>>

\* SandboxClient.on_initialized: the event is set, and every
\* initialize_session call suspended in `await self.initialized_event.wait()`
\* is woken and returns (it does nothing else after the wait)
on_initialized(data) ==
    /\ initialized_event' = TRUE
    /\ init_calls' = [n \in 1..Len(init_calls) |-> InitCall("returned")]
    /\ UNCHANGED <<stream_queues, queues, streams, attaching, client_sessions, result>>
    /\ UNCHANGED <<statusVars, pod>>

\* SandboxClient.on_status: the status is printed
on_status(data) ==
    /\ status_seen' = status_seen + 1
    /\ UNCHANGED <<status_handler, status_calls>>
    /\ UNCHANGED <<stream_queues, queues, streams, attaching, initialized_event,
                   client_sessions, result, init_calls, pod>>

\* the on_status closure of the n-th check_status call: status_data = data and
\* status_event.set(), which wakes the call if it still waits
check_status_on_status(n, data) ==
    /\ status_seen' = status_seen + 1
    /\ status_calls' = [status_calls EXCEPT
                           ![n].status_data = data,
                           ![n].answers = status_seen + 1,
                           ![n].stage = IF @ = "waiting" THEN "set" ELSE @]
    /\ UNCHANGED status_handler
    /\ UNCHANGED <<stream_queues, queues, streams, attaching, initialized_event,
                   client_sessions, result, init_calls, pod>>

\* the socket.io client dispatches the next event of its connection
ClientReceive ==
    LET data == Head(s2c)
    IN  /\ s2c # << >>
        /\ s2c' = Tail(s2c)
        /\ CASE data.event = "command_output" -> on_command_output(data)
             [] data.event = "command_exit" -> on_command_exit(data)
             [] data.event = "initialized" -> on_initialized(data)
             [] data.event = "status" -> IF status_handler = 0 THEN on_status(data)
                                         ELSE check_status_on_status(status_handler, data)
        /\ UNCHANGED serverVars
        /\ UNCHANGED <<c2s, peer_event, ops>>

RECURSIVE stream(_)
\* StreamProcess.stream over the items put on its queue: the outputs it yields,
\* up to the first None
stream(items) ==
    IF items = << >> \/ Head(items).sentinel THEN << >>
    ELSE <<Head(items)>> \o stream(Tail(items))

\* the iteration over StreamProcess i ends: `output is None` is reached
Ended(i) == \E k \in 1..Len(queues[streams[i].stream_queue]) :
                queues[streams[i].stream_queue][k].sentinel

\* the outputs the iteration over StreamProcess i yields
Yielded(i) == stream(queues[streams[i].stream_queue])

\* ------------------------------------------------------------ server steps
SioInitialize == ServerReceive("initialize")
CheckStatus == ServerReceive("check_status")
StartCommandStream == ServerReceive("start_command_stream")
ReadLine == \E t \in TaskIds, d \in Streams : read_stream_line(t, d)
ReadBlock == \E t \in TaskIds, d \in Streams : read_stream_block(t, d)
StreamFinally == \E t \in TaskIds : stream_output_finally(t)
StreamExit == \E t \in TaskIds : stream_output_exit(t)
Exit == \E p \in ProcIds : ProcExit(p)

Next ==
    \/ HttpInitialize
    \/ HttpRunCommand
    \/ RunCommandReturn
    \/ HttpKillCommand
    \/ KillCommandReturn
    \/ PeerInitialize
    \/ PeerCheckStatus
    \/ PeerStartCommandStream
    \/ ClientInitializeSession
    \/ ClientRunCommand
    \/ ClientAttach
    \/ ClientCheckStatus
    \/ ClientCheckStatusReturn
    \/ ClientKillCommand
    \/ ClientReceive
    \/ SioInitialize
    \/ CheckStatus
    \/ StartCommandStream
    \/ ReadLine
    \/ ReadBlock
    \/ StreamFinally
    \/ StreamExit
    \/ Exit

Spec == Init /\ [][Next]_vars

\* The event loop runs every task that can run, the push channel delivers every
\* message, and the client sends the attach message it has prepared.  The
\* command of a wait-mode run ends or reaches its timeout.  Clients need not
\* start operations and children need not end.
Fairness ==
    /\ WF_vars(SioInitialize)
    /\ WF_vars(CheckStatus)
    /\ WF_vars(StartCommandStream)
    /\ WF_vars(ReadLine)
    /\ WF_vars(ReadBlock)
    /\ WF_vars(StreamFinally)
    /\ WF_vars(StreamExit)
    /\ WF_vars(KillCommandReturn)
    /\ WF_vars(RunCommandReturn)
    /\ WF_vars(ClientAttach)
    /\ WF_vars(ClientReceive)
    /\ WF_vars(ClientCheckStatusReturn)

FairSpec == Spec /\ Fairness

\* ------------------------------------------- the file-system specification
\* The HTTP requests that name paths, with the paths drawn from RootInputs,
\* RunPaths and FilePaths.
FsInitialize ==
    \E s \in SessionIds, path \in RootInputs :
        /\ Budget
        /\ ~Blocked
        /\ Pickable(s)
        /\ initialize(s, path)
        /\ UNCHANGED <<tasks, fs>>
        /\ UNCHANGED chanVars
        /\ UNCHANGED clientVars

FsRunCommand ==
    \E s \in SessionIds, cmd \in Commands, mode \in ExecutionMode, pid \in PIDs, ok \in BOOLEAN,
       path \in RunPaths :
        /\ Budget
        /\ ~Blocked
        /\ run_command(s, cmd, mode, pid, ok, path, Missing)
        /\ UNCHANGED <<tasks, fs>>
        /\ UNCHANGED chanVars
        /\ UNCHANGED clientVars

WriteFile ==
    \E s \in SessionIds, f \in FilePaths, c \in Contents, make_parent \in BOOLEAN :
        /\ Budget
        /\ ~Blocked
        /\ write_file(s, f, c, make_parent)
        /\ UNCHANGED tasks
        /\ UNCHANGED chanVars
        /\ UNCHANGED clientVars

ReadFile ==
    \E s \in SessionIds, f \in FilePaths :
        /\ Budget
        /\ ~Blocked
        /\ read_file(s, f)
        /\ UNCHANGED tasks
        /\ UNCHANGED chanVars
        /\ UNCHANGED clientVars

DeleteFile ==
    \E s \in SessionIds, f \in FilePaths :
        /\ Budget
        /\ ~Blocked
        /\ delete_file(s, f)
        /\ UNCHANGED tasks
        /\ UNCHANGED chanVars
        /\ UNCHANGED clientVars

MakeDirs ==
    \E s \in SessionIds, f \in FilePaths :
        /\ Budget
        /\ ~Blocked
        /\ make_dirs(s, f)
        /\ UNCHANGED tasks
        /\ UNCHANGED chanVars
        /\ UNCHANGED clientVars

FsNext ==
    \/ FsInitialize
    \/ FsRunCommand
    \/ RunCommandReturn
    \/ WriteFile
    \/ ReadFile
    \/ DeleteFile
    \/ MakeDirs

FsSpec == Init /\ [][FsNext]_vars

\* ------------------------------------------------ the streaming specification
\* One connection attaches to the streams of commands that write without end.
RunEndless ==
    \E s \in SessionIds, pid \in PIDs :
        /\ Budget
        /\ ~Blocked
        /\ run_command(s, Endless, STREAM, pid, TRUE, NoPath, Missing)
        /\ UNCHANGED <<tasks, fs>>
        /\ UNCHANGED chanVars
        /\ UNCHANGED clientVars

Write == \E p \in ProcIds, d \in Streams : ChildWrite(p, d)

\* the read loop of task t on stream d takes a line
ReadLoop(t, d) == t \in TaskIds /\ read_stream_line(t, d)

StreamNext ==
    \/ HttpInitialize
    \/ RunEndless
    \/ PeerInitialize
    \/ PeerStartCommandStream
    \/ ReadLine
    \/ Write
    \/ Exit
    \/ StreamFinally
    \/ StreamExit
    \/ ClientReceive

StreamSpec == Init /\ [][StreamNext]_vars

\* The event loop runs every coroutine that can run: each read loop is a
\* coroutine of its own, resumed in turn.  The push channel delivers.  Children
\* need neither write nor end.
StreamFairness ==
    /\ \A t \in 1..MaxTasks, d \in Streams : WF_vars(ReadLoop(t, d))
    /\ WF_vars(StreamFinally)
    /\ WF_vars(StreamExit)
    /\ WF_vars(ClientReceive)

FairStreamSpec == StreamSpec /\ StreamFairness

\* ------------------------------------------------ the wait-mode specification
\* Wait-mode runs of commands that end and of one that never does, with and
\* without a timeout.
WaitCommands == Commands \cup {Endless}

\* any HTTP client: the timeout key is missing, null or a number
WaitRunCommand ==
    \E s \in SessionIds, cmd \in WaitCommands, timeout \in Timeouts :
        /\ Budget
        /\ ~Blocked
        /\ run_command(s, cmd, WAIT, 1, FALSE, NoPath, timeout)
        /\ UNCHANGED <<tasks, fs>>
        /\ UNCHANGED chanVars
        /\ UNCHANGED clientVars

\* SandboxClient.run_command(mode=WAIT): the request always has the timeout
\* key, null unless the caller names a timeout
ClientWaitRunCommand ==
    \E s \in SessionIds, cmd \in WaitCommands, timeout \in Timeouts \ {Missing} :
        client_run_command(s, cmd, WAIT, 1, FALSE, NoPath, timeout)

WaitNext ==
    \/ HttpInitialize
    \/ WaitRunCommand
    \/ ClientWaitRunCommand
    \/ RunCommandReturn

WaitSpec == Init /\ [][WaitNext]_vars

\* subprocess.run returns when the command has ended or the timeout is reached
FairWaitSpec == WaitSpec /\ WF_vars(RunCommandReturn)

\* ---------------------------------------------------- the kill specification
\* Background processes in several sessions, re-initialized sessions, and
\* kill_command requests for them.
MaxKillOps == 5
KillBudget == ops < MaxKillOps /\ ops' = ops + 1

KillInitialize ==
    \E s \in SessionIds :
        /\ KillBudget
        /\ Pickable(s)
        /\ initialize(s, NoPath)
        /\ UNCHANGED <<tasks, fs>>
        /\ UNCHANGED chanVars
        /\ UNCHANGED clientVars

KillRunCommand ==
    \E s \in SessionIds, pid \in PIDs :
        /\ KillBudget
        /\ run_command(s, "lines", BACKGROUND, pid, TRUE, NoPath, Missing)
        /\ UNCHANGED <<tasks, fs>>
        /\ UNCHANGED chanVars
        /\ UNCHANGED clientVars

KillCommand ==
    \E s \in SessionIds, pid \in PIDs, raises \in BOOLEAN :
        /\ KillBudget
        /\ kill_command(s, pid, raises)
        /\ UNCHANGED <<tasks, fs>>
        /\ UNCHANGED chanVars
        /\ UNCHANGED clientVars

KillNext ==
    \/ KillInitialize
    \/ KillRunCommand
    \/ KillCommand
    \/ KillCommandReturn
    \/ Exit

KillSpec == Init /\ [][KillNext]_vars

\* ----------------------------------------------------- the pod specification
\* KubeboxPod.wait_until_ready against the outcomes of read_namespaced_pod.
\* pod.status of a pod that was read: container_statuses is None until the
\* containers are created
Phases == {"Pending", "Running", "Failed"}
ContainerStatuses == {Null, Some(<< >>), Some(<<TRUE>>), Some(<<FALSE>>), Some(<<TRUE, FALSE>>)}
PodStatus(phase, container_statuses) ==
    [kind |-> "pod", phase |-> phase, container_statuses |-> container_statuses]
ApiException == [kind |-> "ApiException"]
PodReads ==
    {ApiException} \cup {PodStatus(ph, cs) : ph \in Phases, cs \in ContainerStatuses}

\* all([c.ready for c in status.container_statuses])
all_ready(container_statuses) ==
    \A i \in 1..Len(container_statuses[1]) : container_statuses[1][i]

\* KubeboxPod.wait_until_ready is called on a created pod
wait_until_ready ==
    /\ pod.stage = "created"
    /\ pod' = [pod EXCEPT !.stage = "reading"]

\* one pass of the loop for what read_namespaced_pod returned or raised: the
\* elapsed time is returned for a running pod whose containers are all ready,
\* ApiException is logged and leaves the loop, after which the function ends
\* and returns None, iterating over container_statuses None raises TypeError
wait_until_ready_read(read) ==
    /\ pod.stage = "reading"
    /\ Len(pod.reads) < MaxPolls
    /\ pod' = [pod EXCEPT
                  !.reads = Append(@, read),
                  !.stage = IF read = ApiException THEN "returned"
                            ELSE IF read.phase # "Running" THEN "sleeping"
                            ELSE IF read.container_statuses = Null THEN "raised"
                            ELSE IF all_ready(read.container_statuses) THEN "returned"
                            ELSE "sleeping",
                  !.returned = IF read = ApiException THEN [kind |-> "None"]
                               ELSE IF /\ read.phase = "Running"
                                       /\ read.container_statuses # Null
                                       /\ all_ready(read.container_statuses)
                               THEN [kind |-> "elapsed"]
                               ELSE @]

\* await asyncio.sleep(poll_interval)
wait_until_ready_sleep ==
    /\ pod.stage = "sleeping"
    /\ pod' = [pod EXCEPT !.stage = "reading"]

PodWaitUntilReady ==
    /\ wait_until_ready
    /\ UNCHANGED <<sessions, order, heap, procs, tasks, kills, c2s, s2c, peer_event, response,
                   gone, ops, stream_queues, queues, streams, attaching, initialized_event,
                   client_sessions, result, status_handler, status_seen, status_calls,
                   init_calls, fs>>

PodRead ==
    /\ \E read \in PodReads : wait_until_ready_read(read)
    /\ UNCHANGED <<sessions, order, heap, procs, tasks, kills, c2s, s2c, peer_event, response,
                   gone, ops, stream_queues, queues, streams, attaching, initialized_event,
                   client_sessions, result, status_handler, status_seen, status_calls,
                   init_calls, fs>>

PodSleep ==
    /\ wait_until_ready_sleep
    /\ UNCHANGED <<sessions, order, heap, procs, tasks, kills, c2s, s2c, peer_event, response,
                   gone, ops, stream_queues, queues, streams, attaching, initialized_event,
                   client_sessions, result, status_handler, status_seen, status_calls,
                   init_calls, fs>>

PodNext ==
    \/ PodWaitUntilReady
    \/ PodRead
    \/ PodSleep

PodSpec == Init /\ [][PodNext]_vars

\* -------------------------------------------------------------- properties
\* the process registry of the session with id s
Registry(s) == heap[sessions[s]].active_processes

\* pid is registered in the session named s and its child has no exit code
RegisteredRunning(s, pid) ==
    /\ sessions[s] # 0
    /\ Registry(s)[pid] # 0
    /\ procs[Registry(s)[pid]].returncode = Null

\* the server handles a check_status message of the SandboxClient in this step
HandlesCheckStatus ==
    /\ c2s # << >>
    /\ Head(c2s).event = "check_status"
    /\ c2s' = Tail(c2s)

RECURSIVE OutputsOf(_, _)
\* the outputs of the records of type d among items, in order
OutputsOf(items, d) ==
    IF items = << >> THEN << >>
    ELSE (IF Head(items).type = d THEN <<Head(items).output>> ELSE << >>)
         \o OutputsOf(Tail(items), d)

\* the text of the lines a child wrote to a stream, in write order
TextOf(lines) == [k \in 1..Len(lines) |-> decode(lines[k]).text]

\* C1: POST /initialize for a session id that already exists leaves the
\* process registry of that session unchanged (no registered process is lost).
C1_InitializeKeepsRegistry ==
    [][\A s \in SessionIds :
          (sessions[s] # 0 /\ sessions'[s] # sessions[s])
              => heap'[sessions'[s]].active_processes = Registry(s)]_vars

\* C2: for every streamed process the server emits command_exit after the last
\* command_output of that process: no output is emitted once the exit was.
C2_ExitAfterLastOutput ==
    \A p \in ProcIds : ~procs[p].late

\* C3: the server emits at most one command_exit for a process, whatever
\* messages the clients send.
C3_ExitAtMostOnce ==
    \A p \in ProcIds : procs[p].exits <= 1

\* C4: when the iteration over a StreamProcess has ended, the records it
\* yielded for each of stdout and stderr are exactly the lines the process
\* wrote to that stream, in write order.
C4_YieldsWhatWasWritten ==
    \A i \in StreamIds :
        Ended(i) => \A d \in Streams :
            OutputsOf(Yielded(i), d) = TextOf(procs[streams[i].process].wrote[d])

C6_StreamEventuallyEnds ==
    \/ <>(\/ Len(heap) > 1
          \/ Len(procs) > 1
          \/ \E o \in 1..Len(heap) : heap[o].sid = PeerConn)
    \/ \A i \in 1..MaxProcs :
           (i \in StreamIds /\ ~procs[streams[i].process].alive)
               ~> (i \in StreamIds /\ Ended(i))

\* C7: on every client stream queue at most one None is put, and
\* no output record is put after it.
C7_SingleFinalSentinel ==
    \A q \in 1..Len(queues) :
        \A k \in 1..Len(queues[q]) : queues[q][k].sentinel => k = Len(queues[q])

\* C8: the status event that answers a check_status request carries
\* running = true exactly when the process is registered in the session the
\* request names and has no exit code.
C8_StatusOfNamedSession ==
    [][HandlesCheckStatus =>
          /\ Len(s2c') = Len(s2c) + 1
          /\ s2c'[Len(s2c')].event = "status"
          /\ (s2c'[Len(s2c')].running = Some(TRUE))
                 <=> RegisteredRunning(Head(c2s).session_id, Head(c2s).process_id)]_vars

\* C9: every check_status request is answered by exactly one status event to
\* the requesting connection, and when the session or the process is absent
\* that event carries running = false.
C9_AbsentIsFalse ==
    [][HandlesCheckStatus =>
          /\ Len(s2c') = Len(s2c) + 1
          /\ s2c'[Len(s2c')].event = "status"
          /\ (\/ sessions[Head(c2s).session_id] = 0
              \/ Registry(Head(c2s).session_id)[Head(c2s).process_id] = 0)
                 => s2c'[Len(s2c')].running = Some(FALSE)]_vars

\* this step answers a kill_command request with an error
KillFails ==
    /\ HttpKillCommand
    /\ kills' = kills

\* this step answers a kill_command request with {status: "killed", exit_code}
KillReturns == KillCommandReturn

\* C11: kill_command for a process registered in the named session is not
\* answered with an error; it is answered with status "killed" only once the
\* process has exited, with the final exit code of the process, and with the
\* process removed from the registry of the session.
C11_KillRegistered ==
    [][/\ KillFails =>
            \/ sessions[response'.of.session_id] = 0
            \/ Registry(response'.of.session_id)[response'.of.process_id] = 0
       /\ KillReturns =>
            \E p \in ProcIds :
                /\ procs[p].pid = response'.process_id
                /\ ~procs'[p].alive
                /\ procs'[p].signalled \/ procs'[p].returncode = Some(ExitCode(procs[p].command))
                /\ response'.exit_code = procs'[p].returncode
                /\ heap'[sessions'[response'.session_id]].active_processes[response'.process_id] = 0]_vars

\* this step takes a kill_command request up to its `await process.wait()`
KillStarts ==
    /\ HttpKillCommand
    /\ Len(kills') > Len(kills)

\* C12: kill_command for a process that is not registered in the named
\* session is answered with 404, and for an unknown session with the
\* session-not-found error (400); in both cases no process is signalled and no
\* registry changes.  (A kill_command that does signal names a registered
\* process.)
C12_KillNotFound ==
    [][/\ KillFails =>
            LET s == response'.of.session_id
                pid == response'.of.process_id
            IN  /\ sessions[s] = 0 =>
                    /\ response'.http = 400
                    /\ response'.detail = "Session not found"
                    /\ procs' = procs /\ heap' = heap /\ kills' = kills
                /\ (sessions[s] # 0 /\ Registry(s)[pid] = 0) =>
                    /\ response'.http = 404
                    /\ procs' = procs /\ heap' = heap /\ kills' = kills
       /\ KillStarts =>
            LET k == kills'[Len(kills')]
            IN  /\ sessions[k.session_id] = k.session
                /\ Registry(k.session_id)[procs[k.process].pid] = k.process]_vars

\* C12 witness: a kill_command was answered with 404 while another process is
\* registered and running in the named session, unsignalled.
C12_NotFoundAnswered ==
    /\ response.kind = "error"
    /\ "of" \in DOMAIN response
    /\ response.http = 404
    /\ sessions[response.of.session_id] # 0
    /\ \E p \in ProcIds :
          /\ Registry(response.of.session_id)[procs[p].pid] = p
          /\ procs[p].alive /\ ~procs[p].signalled

\* this step is a wait-mode run_command of cmd in an existing session whose
\* command completes (completed) or is still running at the timeout
WaitRun(cmd, completed) ==
    /\ Blocked
    /\ response.command = cmd
    /\ run_command_return(completed)

\* C13: a wait-mode run_command whose command completes answers with the
\* stdout and stderr the command wrote, its exit code, and finished = TRUE
\* exactly when the exit code is zero, and registers no process.
C13_WaitResult ==
    [][\A cmd \in Commands :
          WaitRun(cmd, TRUE) =>
              /\ response'.kind = "result"
              /\ response'.stdout = TextOf(Output(cmd).stdout)
              /\ response'.stderr = TextOf(Output(cmd).stderr)
              /\ response'.exit_code = ExitCode(cmd)
              /\ response'.finished = (response'.exit_code = 0)
              /\ heap' = heap
              /\ procs' = procs]_vars

\* C14: a wait-mode run_command whose command is still running at the timeout
\* is answered with HTTP 200 {error: "Command timed out", finished: false} and
\* registers no process; SandboxClient.run_command returns it as a
\* CommandResult with finished = FALSE and no exit code, not an exception.
C14_WaitTimeout ==
    [][\A cmd \in Commands :
          /\ WaitRun(cmd, FALSE) =>
                /\ response'.kind = "timeout"
                /\ response'.http = 200
                /\ response'.error = "Command timed out"
                /\ response'.finished = FALSE
                /\ heap' = heap
                /\ procs' = procs
          /\ (WaitRun(cmd, FALSE) /\ result = AwaitingRun) =>
                /\ result'.kind = "CommandResult"
                /\ result'.finished = FALSE
                /\ result'.exit_code = Null]_vars

\* C14 witness: a wait-mode run through the SandboxClient timed out while a
\* process is registered in a session.
C14_TimedOut ==
    /\ response.kind = "timeout"
    /\ result.kind = "CommandResult"
    /\ ~result.finished
    /\ \E s \in SessionIds : sessions[s] # 0 /\ \E pid \in PIDs : Registry(s)[pid] # 0

\* this step is a background-mode run_command in session s that spawns a
\* process with identity pid
BackgroundRun(s, pid) ==
    /\ ops' = ops + 1
    /\ \E cmd \in Commands : run_command_spawn(s, cmd, BACKGROUND, pid, TRUE, NoPath)

\* C15: a background-mode run_command registers the spawned process in the
\* registry of the session and answers with its identity while it runs; and
\* once such a process has exited by itself, a status poll for it by the
\* connection attached to its session leaves it out of the registry.
C15_BackgroundRegistered ==
    [][/\ \A s \in SessionIds, pid \in PIDs :
            BackgroundRun(s, pid) =>
                /\ response' = [kind |-> "process", http |-> 200, process_id |-> pid]
                /\ heap'[sessions'[s]].active_processes[pid] = Len(procs')
                /\ procs'[Len(procs')].alive
                /\ procs'[Len(procs')].pid = pid
       /\ HandlesCheckStatus =>
            LET s == Head(c2s).session_id
                pid == Head(c2s).process_id
            IN  (/\ sessions[s] # 0
                 /\ get_session_by_sid(ClientConn) = s
                 /\ Registry(s)[pid] # 0
                 /\ ~procs[Registry(s)[pid]].alive
                 /\ ~procs[Registry(s)[pid]].signalled)
                    => heap'[sessions'[s]].active_processes[pid] = 0]_vars

\* this step is a stream-mode run_command in session s that spawns a process
\* with identity pid
StreamRun(s, pid) ==
    /\ ops' = ops + 1
    /\ \E cmd \in Commands : run_command_spawn(s, cmd, STREAM, pid, TRUE, NoPath)

\* the server has taken a line from a pipe of process p for a command_output,
\* or has emitted a command_exit for it
Emitted(p) ==
    \/ procs[p].exits > 0
    \/ \E d \in Streams : Len(procs[p].buf[d]) < Len(procs[p].wrote[d])

\* the server has handled a start_command_stream message that names process p
Attached(p) ==
    \E t \in TaskIds : tasks[t].process = p /\ tasks[t].process_id = procs[p].pid

\* C16: a stream-mode run_command registers the process and answers with its
\* identity without emitting anything, and the server emits no
\* command_output and no command_exit of a process before it has handled a
\* start_command_stream message that names it.
C16_NoEventBeforeAttach ==
    [][/\ \A s \in SessionIds, pid \in PIDs :
            StreamRun(s, pid) =>
                /\ response' = [kind |-> "process", http |-> 200, process_id |-> pid]
                /\ heap'[sessions'[s]].active_processes[pid] = Len(procs')
                /\ s2c' = s2c
                /\ peer_event' = peer_event
                /\ tasks' = tasks
       /\ \A p \in 1..Len(procs') : Emitted(p)' => Attached(p)']_vars

\* C16 witness: a process was spawned with output waiting in its pipe, the
\* attach message naming it is on its way, and nothing was emitted for it.
C16_SpawnedNotAttached ==
    \E p \in ProcIds :
        /\ procs[p].buf # [d \in Streams |-> << >>]
        /\ ~Emitted(p)
        /\ ~Attached(p)
        /\ \E k \in 1..Len(c2s) :
              /\ c2s[k].event = "start_command_stream"
              /\ c2s[k].process_id = procs[p].pid

\* the client has sent the attach message for process identity pid
Streamed(pid) == \E i \in 1..Len(streams) : streams[i].process_id = pid

\* this step is the client handling a command_output or command_exit event
HandlesStreamEvent ==
    /\ ClientReceive
    /\ Head(s2c).event \in {"command_output", "command_exit"}

PushedToClient ==
    /\ Len(s2c') = Len(s2c) + 1
    /\ s2c'[Len(s2c')].event \in {"command_output", "command_exit"}

\* the connection attached to the session registered under session_id
AttachedConnection(session_id) == heap[get_session(session_id)].sid

\* C18: a command_output or command_exit event of a process of session S is
\* pushed only to the connection attached to S: when such an event reaches
\* the SandboxClient's connection, that connection is the attached
\* connection of S.
C18_OnlyAttachedConnection ==
    [][PushedToClient =>
         AttachedConnection(s2c'[Len(s2c')].session_id) = ClientConn]_vars

\* this step is the server handling the push-channel handshake of connection
\* c for session s
HandshakeFrom(c, s) ==
    IF c = ClientConn
    THEN SioInitialize /\ Head(c2s).session_id = s
    ELSE PeerInitialize /\ sio_initialize(c, Msg("initialize", s, 0))

\* C19: a handshake of connection c for an existing session S leaves S
\* attached to c and to c only, and once S is attached to connection c2 the
\* command_output and command_exit events of S's streams are no longer pushed
\* to the connection c1 that was attached before.
C19_HandshakeReplaces ==
    [][/\ \A c \in Conns, s \in SessionIds :
            (HandshakeFrom(c, s) /\ get_session(s) # 0) =>
                heap'[sessions'[s]].sid = c
       /\ PushedToClient =>
            AttachedConnection(s2c'[Len(s2c')].session_id) # PeerConn]_vars

\* the reply to the handshake for session s
Initialized(s) == [event |-> "initialized", status |-> "success", session_id |-> s]

\* this step pushes the reply to the handshake for session s to connection c
Acknowledged(c, s) ==
    IF c = ClientConn
    THEN Len(s2c') = Len(s2c) + 1 /\ s2c'[Len(s2c')] = Initialized(s)
    ELSE peer_event' = Initialized(s)

\* C20: whenever the server replies initialized {success, S} to the handshake
\* of connection c, session S is in the session registry and its attached
\* connection is c.
C20_BoundWhenAcknowledged ==
    [][\A c \in Conns, s \in SessionIds :
         (HandshakeFrom(c, s) /\ Acknowledged(c, s)) =>
             /\ sessions'[s] # 0
             /\ heap'[sessions'[s]].sid = c]_vars

\* the read loops of a stream of process p are over and its cleanup has
\* removed it
Drained(p) == \E t \in TaskIds : tasks[t].process = p /\ tasks[t].stage # "gather"

\* Process object p is in the registry of a session of the session registry
Registered(p) ==
    \E s \in SessionIds : sessions[s] # 0 /\ Registry(s)[procs[p].pid] = p

\* C21: a streamed process is removed from the registry no earlier than its
\* exit code is recorded and its command_exit is emitted: in every state
\* where a streamed process has drained and is absent from the registry, its
\* command_exit has been emitted.
C21_RemovedAfterExit ==
    \A p \in ProcIds :
        (Drained(p) /\ ~Registered(p)) =>
            /\ procs[p].exit_code # Null
            /\ procs[p].exit_code = procs[p].returncode
            /\ procs[p].exits > 0

\* the sessions of the session registry in whose registry Process object p is
RegisteredIn(p) ==
    {s \in SessionIds : sessions[s] # 0 /\ Registry(s)[procs[p].pid] = p}

\* no session id was initialized twice: every Session object ever made is the
\* one registered under its id
InitializedOnce == \A o \in 1..Len(heap) : sessions[heap[o].session_id] = o

\* C22: a background or stream process that is still running (so neither
\* killed nor drained) is in the registry of exactly one session; stated for
\* the states in which no session id was initialized twice.
C22_RegisteredInOneSession ==
    InitializedOnce =>
        \A p \in ProcIds : procs[p].alive => Cardinality(RegisteredIn(p)) = 1

\* this step is a request of a client (run_command is one)
RunStep == ops' = ops + 1

\* C23: a run_command for an unknown session is answered 'Session not found'
\* and spawns nothing; a spawn failure in background or stream mode is
\* answered with an error and registers nothing; and an entry is added to a
\* registry only for a process that was spawned in that step.
C23_RegisteredOnlyWhenSpawned ==
    [][/\ \A s \in SessionIds :
            (RunStep /\ sessions[s] = 0 /\ run_command_no_session(s)) =>
                /\ response' = [kind |-> "error", http |-> 400, detail |-> "Session not found"]
                /\ procs' = procs
                /\ heap' = heap
       /\ \A s \in SessionIds, cmd \in Commands, mode \in {STREAM, BACKGROUND}, pid \in PIDs :
            (RunStep /\ run_command_spawn(s, cmd, mode, pid, FALSE, NoPath)) =>
                /\ response'.kind = "error"
                /\ response'.http >= 400
                /\ procs' = procs
                /\ heap' = heap
       /\ \A o \in 1..Len(heap), pid \in PIDs :
            heap'[o].active_processes[pid] \notin {0, heap[o].active_processes[pid]} =>
                /\ heap'[o].active_processes[pid] = Len(procs) + 1
                /\ Len(procs') = Len(procs) + 1
                /\ procs'[Len(procs')].alive
                /\ procs'[Len(procs')].pid = pid]_vars

\* C23 witness: a run_command naming an unknown session was refused while a
\* process is registered in another session.
C23_UnknownSessionRefused ==
    /\ response = [kind |-> "error", http |-> 400, detail |-> "Session not found"]
    /\ \E s \in SessionIds : sessions[s] # 0 /\ \E pid \in PIDs : Registry(s)[pid] # 0

\* stream task t has run its cleanup: the exit code of its process is
\* recorded, the process is in no registry and command_exit was emitted
CleanedUp(t) ==
    /\ tasks[t].stage = "done"
    /\ procs[tasks[t].process].exit_code # Null
    /\ procs[tasks[t].process].exit_code = procs[tasks[t].process].returncode
    /\ ~Registered(tasks[t].process)
    /\ procs[tasks[t].process].exits >= 1

\* C24: under fair scheduling, once the process of a started stream has
\* exited, the stream task runs its cleanup whether or not a read loop raised
\* (exit code recorded, process removed from the registry, command_exit
\* emitted), and every stream task that has finished emitted one command_exit.
C24_CleanupOnEveryPath ==
    /\ \A t \in 1..MaxTasks :
          (t \in TaskIds /\ ~procs[tasks[t].process].alive)
              ~> (t \in TaskIds /\ CleanedUp(t))
    /\ [](\A p \in ProcIds :
            procs[p].exits =
                Cardinality({t \in TaskIds : tasks[t].process = p /\ tasks[t].stage = "done"}))

\* C24 witness: a stream task whose read loop raised has run its cleanup.
C24_RaisedAndCleanedUp ==
    \E t \in TaskIds :
        /\ \E d \in Streams : loop_raised(t, d)
        /\ CleanedUp(t)
        /\ procs[tasks[t].process].exits = 1

\* C25: SandboxClient.kill_command for an unknown session or a process that
\* is not registered returns CommandKilled with status "not found" and no
\* exit code, and SandboxClient.run_command for an unknown session raises.
C25_NotFoundResultOrRaise ==
    [][/\ \A s \in SessionIds, pid \in PIDs :
            (/\ RunStep
             /\ sessions[s] = 0 \/ Registry(s)[pid] = 0
             /\ \E raises \in BOOLEAN : client_kill_command(s, pid, raises)) =>
                result' = [kind |-> "CommandKilled", status |-> "not found",
                           exit_code |-> Null]
       /\ \A s \in SessionIds, cmd \in Commands, mode \in ExecutionMode :
            (/\ RunStep
             /\ sessions[s] = 0
             /\ \E pid \in PIDs, ok \in BOOLEAN :
                   client_run_command(s, cmd, mode, pid, ok, NoPath, Some(DefaultTimeout))) =>
                result'.kind = "exception"]_vars

\* C25 witness: the client's kill_command returned "not found" while a
\* process is registered on the server.
C25_KillNotFoundReturned ==
    /\ result = [kind |-> "CommandKilled", status |-> "not found", exit_code |-> Null]
    /\ \E s \in SessionIds : sessions[s] # 0 /\ \E pid \in PIDs : Registry(s)[pid] # 0

\* a started stream has a line to read: a read loop that has not raised and
\* whose pipe holds a line
LineAvailable ==
    \E t \in TaskIds, d \in Streams :
        ~loop_raised(t, d) /\ procs[tasks[t].process].buf[d] # << >>

\* a started stream is due to emit its terminal event: its read loops are
\* over and its process has exited
ExitDue ==
    \E t \in TaskIds :
        tasks[t].stage # "done" /\ gather_over(t) /\ ~procs[tasks[t].process].alive

\* C26: while the server executes a wait-mode run_command, a started stream
\* that has a line to read can emit it, and one whose terminal event is due
\* can proceed to emit it: neither waits for the wait-mode command to finish.
C26_PushIndependentOfWait ==
    Blocked =>
        /\ (LineAvailable /\ ~SendPending) => ENABLED ReadLine
        /\ ExitDue => ENABLED (StreamFinally \/ StreamExit)

\* the root of session s as the operating system resolves it
SessionRoot(s) == abspath(heap[sessions[s]].path)

\* the directories the command of a request with `path` may run in: the
\* session's root, or `path` beneath it
UnderRoot(s, path) == {SessionRoot(s), abspath(join(heap[sessions[s]].path, path))}

\* C27: every command run_command spawns, in stream, background or wait mode,
\* runs in the session's root directory or in the request's path resolved
\* beneath that root.
C27_CwdUnderRoot ==
    [][\A s \in SessionIds, path \in RunPaths :
        RunStep =>
            /\ (\E cmd \in Commands, mode \in ExecutionMode, pid \in PIDs :
                    run_command_spawn(s, cmd, mode, pid, TRUE, path)) =>
                procs'[Len(procs')].cwd \in UnderRoot(s, path)
            /\ (\E cmd \in Commands : /\ run_command_wait_start(s, cmd, path, Missing)
                                      /\ response'.kind = "waiting") =>
                response'.cwd \in UnderRoot(s, path)]_vars

\* C28: a write_file of content c to the relative path f of an existing
\* session that succeeds is followed by a read_file of f in the same session
\* that returns exactly c, both resolving f against the same session root.
C28_RoundTrip ==
    [][\A s \in SessionIds, f \in FilePaths, c \in Contents, make_parent \in BOOLEAN :
        (RunStep /\ write_file(s, f, c, make_parent) /\ response' = Success) =>
            /\ full_path(s, f)' = full_path(s, f)
            /\ read_file_response(s, f)' = [kind |-> "content", http |-> 200, content |-> c]]_vars

\* a line is in the pipe of stream d of process p and a read loop is on it
Readable(p, d) ==
    /\ p \in ProcIds
    /\ procs[p].buf[d] # << >>
    /\ \E t \in TaskIds : tasks[t].process = p /\ ~loop_raised(t, d)

\* the line that was in the pipe of stream d of process p has been taken
Taken(p, d) == p \in ProcIds /\ procs[p].buf[d] = << >>

\* event ev is the command_output of a line of stream d of process p
OutputOf(ev, p, d) ==
    /\ ev.event = "command_output"
    /\ ev.type = d
    /\ ev.process_id = procs[p].pid

\* C29: a line available on one stream of a streamed process is eventually
\* taken by its read loop, whatever the process writes to its other stream
\* and however long it goes on writing, and the step that takes a line of
\* text emits it as command_output.
C29_NoStarvation ==
    /\ \A p \in 1..MaxProcs, d \in Streams : Readable(p, d) ~> Taken(p, d)
    /\ [][\A p \in ProcIds, d \in Streams :
            (/\ procs[p].buf[d] # << >>
             /\ procs'[p].buf[d] = Tail(procs[p].buf[d])
             /\ Head(procs[p].buf[d]).utf8) =>
                \/ OutputOf(peer_event', p, d)
                \/ s2c' # << >> /\ OutputOf(s2c'[Len(s2c')], p, d) /\ Len(s2c') = Len(s2c) + 1]_vars

\* the process wrote to stdout again, both lines were emitted, and the line
\* on stderr was emitted after them
C29_StderrAfterMoreStdout ==
    /\ Len(s2c) >= 3
    /\ \A i \in 1..3 : s2c[i].event = "command_output" /\ s2c[i].process_id = s2c[1].process_id
    /\ s2c[1].type = "stdout"
    /\ s2c[2].type = "stdout"
    /\ s2c[3].type = "stderr"

\* message `data` is a start_command_stream that names an unknown session or
\* a process that is not registered in the session
BadStream(data) ==
    /\ data.event = "start_command_stream"
    /\ \/ get_session(data.session_id) = 0
       \/ get_process(get_session(data.session_id), data.process_id) = 0

\* C30: when the server handles a start_command_stream of the client that
\* names an unknown session or an unregistered process, it sends the client
\* an error event, starts no stream task and leaves the session and process
\* registries as they are.
C30_BadStreamReported ==
    [][(c2s # << >> /\ BadStream(Head(c2s)) /\ c2s' = Tail(c2s)) =>
          /\ tasks' = tasks
          /\ sessions' = sessions
          /\ heap' = heap
          /\ Len(s2c') = Len(s2c) + 1
          /\ s2c'[Len(s2c')].event = "command_error"]_vars

\* kill_command has signalled the running process p and waits for it, the
\* signal has ended p, a stream_output task of p is in its read loops, and
\* the client iterates over a StreamProcess of p
KilledWhileStreamed(p) ==
    /\ p \in ProcIds
    /\ \E i \in StreamIds : streams[i].process = p
    /\ procs[p].signalled
    /\ ~procs[p].alive
    /\ \E k \in 1..Len(kills) : kills[k].process = p
    /\ \E t \in TaskIds : tasks[t].process = p /\ tasks[t].stage = "gather"

\* both deregistrations of p are over: p is in no registry, one command_exit
\* was emitted for it, no kill_command waits for it, and the iteration over
\* its StreamProcess has ended
KilledAndDrained(p) ==
    /\ p \in ProcIds
    /\ ~Registered(p)
    /\ procs[p].exits = 1
    /\ \A k \in 1..Len(kills) : kills[k].process # p
    /\ \A t \in TaskIds : tasks[t].process = p => tasks[t].stage = "done"
    /\ \A i \in StreamIds : streams[i].process = p => Ended(i)

\* process p has more than one stream_output task
DoubleAttached(p) == Cardinality({t \in TaskIds : tasks[t].process = p}) > 1

\* another connection has bound a session to itself: the events of the
\* session go to that connection
PeerBound == \E o \in 1..Len(heap) : heap[o].sid = PeerConn

\* C31: a streamed process killed through kill_command ends up absent from
\* the registry with exactly one command_exit emitted by its stream task, the
\* kill_command that waited for it answers status "killed", and the client's
\* iteration over its stream ends, unless another connection has bound the
\* session to itself or has attached a second stream task to the process.
C31_KillDuringStream ==
    /\ \A p \in 1..MaxProcs :
          KilledWhileStreamed(p)
              ~> (KilledAndDrained(p) \/ PeerBound \/ (p \in ProcIds /\ DoubleAttached(p)))
    /\ [](\A p \in ProcIds : (procs[p].signalled /\ ~DoubleAttached(p)) => procs[p].exits <= 1)
    /\ [][\A k \in 1..Len(kills) :
            (kill_command_return(k) /\ procs[kills[k].process].signalled) =>
                response'.kind = "killed"]_vars

\* C31 witness: the kill of a streamed process has returned "killed" after
\* the stream's cleanup had removed the process, and the iteration has ended.
C31_KilledStreamEnded ==
    \E p \in ProcIds :
        /\ \E i \in StreamIds : streams[i].process = p
        /\ procs[p].signalled
        /\ KilledAndDrained(p)
        /\ response.kind = "killed"
        /\ response.process_id = procs[p].pid

\* the n-th check_status call of the client has returned
StatusReturned(n) == n <= Len(status_calls) /\ status_calls[n].stage = "returned"

\* Every status event on the client's connection answers one check_status
\* request of that client (check_status emits to the requester's sid only) and
\* the connection keeps the order, so the n-th status event is the reply to the
\* n-th call.
\* C32: with several check_status calls in flight on one client, every call
\* eventually returns, and each call returns the status that was sent in
\* answer to its own request.
C32_EachCallItsOwnReply ==
    /\ [](\A n \in 1..MaxOps : StatusReturned(n) => status_calls[n].answers = n)
    /\ \A n \in 1..MaxOps : (n <= Len(status_calls)) ~> StatusReturned(n)

\* number of messages with this event in a channel
RECURSIVE Pending(_, _)
Pending(chan, event) ==
    IF chan = << >> THEN 0
    ELSE (IF Head(chan).event = event THEN 1 ELSE 0) + Pending(Tail(chan), event)

\* The server answers every handshake of the client with one initialized event
\* on the client's connection, in order: the reply to the n-th handshake has
\* been received when at most Len(init_calls) - n handshakes and replies are
\* still on their way.
HandshakeAnswered(n) ==
    Pending(c2s, "initialize") + Pending(s2c, "initialized") <= Len(init_calls) - n

\* C33: every initialize_session call, not only the first on a client,
\* returns only after the initialized reply to its own handshake was received.
C33_ReturnsAfterOwnReply ==
    \A n \in 1..Len(init_calls) :
        init_calls[n].stage = "returned" => HandshakeAnswered(n)

\* C34: every wait-mode run_command executes with a timeout, the default of 10
\* when the caller gives none, and so eventually returns, even for a command
\* that never exits.
C34_WaitRunReturns ==
    Blocked ~> ~Blocked

\* C35: registering a newly spawned Process never replaces a still-registered
\* entry of another Process: add_process is only applied with a process
\* identity that is no key of the session's registry, also when the operating
\* system hands out again the identifier of a process that has exited but was
\* never deregistered.
C35_AddProcessNeverReplaces ==
    [][Len(procs') = Len(procs) + 1 =>
          LET pid == procs'[Len(procs')].pid
          IN  \A o \in 1..Len(heap) :
                  heap'[o].active_processes[pid] = Len(procs') =>
                      heap[o].active_processes[pid] = 0]_vars

\* in this step every Session keeps its path and sid, and every registry entry
\* other than the entry of pid in Session object o is unchanged
OnlyEntry(o, pid) ==
    /\ sessions' = sessions
    /\ order' = order
    /\ Len(heap') = Len(heap)
    /\ \A o2 \in 1..Len(heap) :
          /\ heap'[o2].path = heap[o2].path
          /\ heap'[o2].sid = heap[o2].sid
          /\ \A q \in PIDs : (o2 # o \/ q # pid) =>
                heap'[o2].active_processes[q] = heap[o2].active_processes[q]

\* Process object p is registered in a Session other than object o
RegisteredElsewhere(p, o) ==
    \E o2 \in 1..Len(heap) : o2 # o /\ heap[o2].active_processes[procs[p].pid] = p

\* C36: kill_command(S, P) changes only the entry of P in the registry of S:
\* the registries of the other sessions, the other entries of S, and the path
\* and sid of every session stay as they are, and the only process it acts on
\* is the one registered under P in S, never one registered in another session.
C36_KillChangesOnlyItsEntry ==
    [][/\ \A s \in SessionIds, pid \in PIDs, raises \in BOOLEAN :
             (ops' = ops + 1 /\ kill_command(s, pid, raises)) =>
                 /\ OnlyEntry(get_session(s), pid)
                 /\ \A p \in ProcIds :
                       procs'[p] # procs[p] =>
                           /\ get_session(s) # 0
                           /\ heap[get_session(s)].active_processes[pid] = p
                           /\ ~RegisteredElsewhere(p, get_session(s))
       /\ \A k \in 1..Len(kills) :
             kill_command_return(k) =>
                 /\ OnlyEntry(kills[k].session, procs[kills[k].process].pid)
                 /\ \A p \in ProcIds : procs'[p] # procs[p] => p = kills[k].process]_vars

\* C36 witness: a kill through s1 has returned "killed" and removed its entry
\* while a process that still runs is registered in s2.
C36_KilledBesideOtherSession ==
    /\ response.kind = "killed"
    /\ response.session_id = "s1"
    /\ sessions["s1"] # 0
    /\ sessions["s2"] # 0
    /\ Registry("s1")[response.process_id] = 0
    /\ \E pid \in PIDs : /\ Registry("s2")[pid] # 0
                          /\ procs[Registry("s2")[pid]].alive

\* a read that shows the pod in phase Running with every container ready
ShowsReady(read) ==
    /\ read.kind = "pod"
    /\ read.phase = "Running"
    /\ read.container_statuses # Null
    /\ \A i \in 1..Len(read.container_statuses[1]) : read.container_statuses[1][i]

\* C37: wait_until_ready returns normally only after it has observed the pod
\* in phase Running with every container ready; after any other outcome of a
\* read (pod not running, a container not ready, an API error) it has not
\* returned.
C37_ReturnsOnlyWhenReady ==
    pod.stage = "returned" =>
        /\ pod.reads # << >>
        /\ ShowsReady(pod.reads[Len(pod.reads)])

\* C10: once the command_exit of a process was emitted or kill_command
\* returned for it, its identity is absent from the registry of its session
\* (so that no later check_status finds it running).
C10_GoneStaysGone ==
    \A g \in gone :
        sessions[g[1]] # 0 => Registry(g[1])[g[2]] = 0

====
